---------------------------- MODULE Spec2Model ----------------------------
(***************************************************************************)
(* Model of tote.py: the Column Resolver (find_column), the location       *)
(* extractors, and the Label Composer (generate_sticker_labels) together   *)
(* with the part of main() that consumes its result.                       *)
(*                                                                         *)
(* Text is modelled by TLA+ strings; Len, \o and SubSeq act on them as on  *)
(* Python str.  A cell of the DataFrame is a tagged record (Python values  *)
(* of different types are not comparable in TLA+):                         *)
(*     [kind |-> "str", str |-> s]   a text cell                           *)
(*     [kind |-> "int", int |-> n]   an integer cell                       *)
(*     [kind |-> "nan"]              a null cell (NaN)                     *)
(* Column names are strings, so the isinstance(col, str) test of           *)
(* find_column is true of every column of the model.                       *)
(***************************************************************************)
EXTENDS Integers, Sequences, FiniteSets, TLC

VARIABLES
    \* ---- find_column called on its own (SpecResolver) ----
    fc_cols,        \* df.columns.tolist()
    fc_keywords,    \* the ordered alias list
    fc_result,      \* the value returned
    fc_pc,          \* "call" | "returned"
    \* ---- the two extractors called on their own (SpecExtract) ----
    ex_row,         \* the row (column name -> cell)
    ex_line_cols,   \* line_location_columns
    ex_store_cols,  \* store_location_columns
    ex_line,        \* result of extract_line_location_components, or NotRun
    ex_store,       \* result of extract_store_location_components, or NotRun
    \* ---- main() / generate_sticker_labels (Spec) ----
    df,               \* the DataFrame: [columns, index, data]
    progress_bar,     \* TRUE iff a progress collaborator is supplied
    status_container, \* TRUE iff a status collaborator is supplied
    pc,               \* position in main / generate_sticker_labels
    column_map,       \* the 3 basic columns and the two location dicts
    temp_path,        \* path of this invocation's temporary file, or None
    files,            \* temporary files that exist on disk
    all_elements,     \* the flowables handed to doc.build
    pos,              \* number of rows the loop has consumed
    progress_log,     \* values passed to progress_bar.progress: <<num, den>>
    status_log,       \* lines written to status_container
    st_log,           \* what main / generate_qr_code show through st.*
    pdf_path,         \* value returned by generate_sticker_labels
    builds,           \* number of doc.build calls
    qr_calls,         \* the data_string of each generate_qr_code call
    raised            \* the exceptions library calls raised, in order

resolver_vars == <<fc_cols, fc_keywords, fc_result, fc_pc>>
extract_vars  == <<ex_row, ex_line_cols, ex_store_cols, ex_line, ex_store>>
composer_vars == <<df, progress_bar, status_container, pc, column_map, temp_path,
                   files, all_elements, pos, progress_log, status_log, st_log,
                   pdf_path, builds, qr_calls, raised>>
vars == <<resolver_vars, extract_vars, composer_vars>>

\* Python's None.  No column name of the model is this string.
None == "<None>"

\* Marks an extractor that has not been called yet.
NotRun == <<"<not run>">>

-----------------------------------------------------------------------------
(* Strings *)

\* str.upper() on one character.
upper_char(c) ==
    CASE c = "a" -> "A" [] c = "b" -> "B" [] c = "c" -> "C" [] c = "d" -> "D"
      [] c = "e" -> "E" [] c = "f" -> "F" [] c = "g" -> "G" [] c = "h" -> "H"
      [] c = "i" -> "I" [] c = "j" -> "J" [] c = "k" -> "K" [] c = "l" -> "L"
      [] c = "m" -> "M" [] c = "n" -> "N" [] c = "o" -> "O" [] c = "p" -> "P"
      [] c = "q" -> "Q" [] c = "r" -> "R" [] c = "s" -> "S" [] c = "t" -> "T"
      [] c = "u" -> "U" [] c = "v" -> "V" [] c = "w" -> "W" [] c = "x" -> "X"
      [] c = "y" -> "Y" [] c = "z" -> "Z" [] OTHER -> c

RECURSIVE upper(_)
\* str.upper()
upper(s) ==
    IF s = "" THEN ""
    ELSE upper_char(SubSeq(s, 1, 1)) \o upper(SubSeq(s, 2, Len(s)))

\* Python's  k in s  on two strings: k occurs in s as a substring.
str_in(k, s) ==
    \E i \in 0..(Len(s) - Len(k)) : SubSeq(s, i + 1, i + Len(k)) = k

\* Faulty variant of keyword_matches: the two upper() calls left out.
keyword_matches_case_sensitive(keyword, col) == str_in(keyword, col)

\* The test of find_column's inner loop.
keyword_matches(keyword, col) == str_in(upper(keyword), upper(col))

-----------------------------------------------------------------------------
(* find_column *)

RECURSIVE scan_cols(_, _, _)
\* for col in cols: if <match>: return col   (None: the loop ran out)
scan_cols(cols, keyword, j) ==
    IF j > Len(cols) THEN None
    ELSE IF keyword_matches(keyword, cols[j]) THEN cols[j]
    ELSE scan_cols(cols, keyword, j + 1)

RECURSIVE scan_keywords(_, _, _)
\* for keyword in keywords: <inner loop>;  return None
scan_keywords(cols, keywords, k) ==
    IF k > Len(keywords) THEN None
    ELSE LET r == scan_cols(cols, keywords[k], 1)
         IN  IF r # None THEN r ELSE scan_keywords(cols, keywords, k + 1)

RECURSIVE scan_cols_first(_, _, _)
\* The loops of find_column nested the other way round: columns outside.
scan_cols_first(cols, keywords, j) ==
    IF j > Len(cols) THEN None
    ELSE IF \E k \in 1..Len(keywords) : keyword_matches(keywords[k], cols[j])
         THEN cols[j]
    ELSE scan_cols_first(cols, keywords, j + 1)

\* Faulty variant of find_column: header order first, alias order second.
find_column_header_order_first(cols, keywords) == scan_cols_first(cols, keywords, 1)

\* find_column(df, keywords), cols being df.columns.tolist()
find_column(cols, keywords) == scan_keywords(cols, keywords, 1)

-----------------------------------------------------------------------------
(* Cells and rows *)

StrCell(s) == [kind |-> "str", str |-> s]
IntCell(n) == [kind |-> "int", int |-> n]
NaN        == [kind |-> "nan"]

\* pd.notna(cell)
notna(cell) == cell.kind # "nan"

\* str(cell): text as it is, an integer in decimal, NaN as "nan".
py_str(cell) ==
    CASE cell.kind = "str" -> cell.str
      [] cell.kind = "int" -> ToString(cell.int)
      [] cell.kind = "nan" -> "nan"

\* [''] * 7
NumComponents == 7

\* Faulty variant of component: the pd.notna test left out, so a null cell
\* is rendered by str() as "nan".
component_without_notna(row, col) ==
    IF col # None /\ col \in DOMAIN row THEN py_str(row[col]) ELSE ""

\* One  if columns[f] and columns[f] in row: components[i] = ...  statement
\* of the extractors; the value components[i] holds after it (it was '').
component(row, col) ==
    IF col # None /\ col # "" /\ col \in DOMAIN row
    THEN IF notna(row[col]) THEN py_str(row[col]) ELSE ""
    ELSE ""

\* The keys of line_location_columns, in the order of the components.
LineFields == <<"model", "station_no", "rack", "rack_no_1st", "rack_no_2nd",
                "level", "cell">>

\* The keys of store_location_columns, in the order of the components.
StoreFields == <<"abb_zone", "abb_location", "abb_floor", "abb_rack_no",
                 "abb_level_in_rack", "abb_cell", "abb_no">>

\* Faulty variant of extract_line_location_components: level and cell are
\* written to each other's position.
extract_line_location_components_level_cell_swapped(row, columns) ==
    <<component(row, columns["model"]), component(row, columns["station_no"]),
      component(row, columns["rack"]), component(row, columns["rack_no_1st"]),
      component(row, columns["rack_no_2nd"]), component(row, columns["cell"]),
      component(row, columns["level"])>>

extract_line_location_components(row, columns) ==
    LET c0 == [i \in 1..NumComponents |-> ""]
        c1 == [c0 EXCEPT ![1] = component(row, columns["model"])]
        c2 == [c1 EXCEPT ![2] = component(row, columns["station_no"])]
        c3 == [c2 EXCEPT ![3] = component(row, columns["rack"])]
        c4 == [c3 EXCEPT ![4] = component(row, columns["rack_no_1st"])]
        c5 == [c4 EXCEPT ![5] = component(row, columns["rack_no_2nd"])]
        c6 == [c5 EXCEPT ![6] = component(row, columns["level"])]
        c7 == [c6 EXCEPT ![7] = component(row, columns["cell"])]
    IN  c7

extract_store_location_components(row, columns) ==
    LET c0 == [i \in 1..NumComponents |-> ""]
        c1 == [c0 EXCEPT ![1] = component(row, columns["abb_zone"])]
        c2 == [c1 EXCEPT ![2] = component(row, columns["abb_location"])]
        c3 == [c2 EXCEPT ![3] = component(row, columns["abb_floor"])]
        c4 == [c3 EXCEPT ![4] = component(row, columns["abb_rack_no"])]
        c5 == [c4 EXCEPT ![5] = component(row, columns["abb_level_in_rack"])]
        c6 == [c5 EXCEPT ![6] = component(row, columns["abb_cell"])]
        c7 == [c6 EXCEPT ![7] = component(row, columns["abb_no"])]
    IN  c7

-----------------------------------------------------------------------------
(* Column resolution in generate_sticker_labels *)

PartNoAliases == <<"PART NO", "PARTNO", "PART", "PART_NO", "PART#">>
DescAliases   == <<"PART DESC", "DESC", "DESCRIPTION", "NAME", "PRODUCT_NAME">>
QtyBinAliases == <<"QTY/BIN", "QTY_BIN", "QTYBIN", "QTY", "QUANTITY">>

\* The alias list of each key of line_location_columns.
LineAliases ==
    [model       |-> <<"MODEL", "BUS MODEL", "BUS_MODEL", "BUSMODEL", "BUS">>,
     station_no  |-> <<"STATION NO", "STATION_NO", "STATIONNO", "STATION">>,
     rack        |-> <<"RACK">>,
     rack_no_1st |-> <<"RACK NO. (1ST DIGIT)", "RACK NO (1ST DIGIT)",
                       "RACK_NO_1ST", "RACK NO 1ST">>,
     rack_no_2nd |-> <<"RACK NO. (2ND DIGIT)", "RACK NO (2ND DIGIT)",
                       "RACK_NO_2ND", "RACK NO 2ND">>,
     level       |-> <<"LEVEL">>,
     cell        |-> <<"CELL">>]

\* The alias list of each key of store_location_columns.
StoreAliases ==
    [abb_zone          |-> <<"ABB FOR ZONE", "ABB_FOR_ZONE", "ABB ZONE",
                             "ABB_ZONE", "ABBZONE", "ZONE">>,
     abb_location      |-> <<"ABB FOR LOCATION", "ABB_FOR_LOCATION",
                             "ABB LOCATION", "ABB_LOCATION", "ABBLOCATION">>,
     abb_floor         |-> <<"ABB FOR FLOOR", "ABB_FOR_FLOOR", "ABB FLOOR",
                             "ABB_FLOOR", "ABBFLOOR", "FLOOR">>,
     abb_rack_no       |-> <<"ABB FOR RACK NO", "ABB_FOR_RACK_NO", "ABB RACK NO",
                             "ABB_RACK_NO", "ABBRACKNO", "ABB RACK">>,
     abb_level_in_rack |-> <<"ABB FOR LEVEL IN RACK", "ABB_FOR_LEVEL_IN_RACK",
                             "ABB LEVEL IN RACK", "ABB_LEVEL_IN_RACK",
                             "ABBLEVELINRACK", "ABB LEVEL">>,
     abb_cell          |-> <<"ABB FOR CELL", "ABB_FOR_CELL", "ABB CELL",
                             "ABB_CELL", "ABBCELL">>,
     abb_no            |-> <<"ABB FOR NO", "ABB_FOR_NO", "ABB NO", "ABB_NO",
                             "ABBNO", "ABB NUMBER">>]

\* The ColumnMap: part_no_col, desc_col, qty_bin_col and the two dicts.
resolve_columns(cols) ==
    [part_no_col |-> find_column(cols, PartNoAliases),
     desc_col    |-> find_column(cols, DescAliases),
     qty_bin_col |-> find_column(cols, QtyBinAliases),
     line_location_columns  |->
         [f \in DOMAIN LineAliases |-> find_column(cols, LineAliases[f])],
     store_location_columns |->
         [f \in DOMAIN StoreAliases |-> find_column(cols, StoreAliases[f])]]

\* The column map of a run that has not resolved its columns yet.
NoColumns ==
    [part_no_col |-> None, desc_col |-> None, qty_bin_col |-> None,
     line_location_columns  |-> [f \in DOMAIN LineAliases |-> None],
     store_location_columns |-> [f \in DOMAIN StoreAliases |-> None]]

\* f"{x}" of a column name or None.
fmt(x) == IF x = None THEN "None" ELSE x

RECURSIVE dict_lines(_, _, _)
\* for key, col in d.items(): status_container.write(f"- {key}: {col}")
dict_lines(keys, d, i) ==
    IF i > Len(keys) THEN <<>>
    ELSE <<"- " \o keys[i] \o ": " \o fmt(d[keys[i]])>> \o dict_lines(keys, d, i + 1)

\* The status lines of  if status_container: ...  after column resolution.
using_columns_lines(cm) ==
    <<"**Using columns:**",
      "- Part No: " \o fmt(cm.part_no_col),
      "- Description: " \o fmt(cm.desc_col),
      "- Qty/Bin: " \o fmt(cm.qty_bin_col),
      "**Line Location columns:**">>
    \o dict_lines(LineFields, cm.line_location_columns, 1)
    \o <<"**Store Location (ABB) columns:**">>
    \o dict_lines(StoreFields, cm.store_location_columns, 1)

-----------------------------------------------------------------------------
(* One iteration of the row loop *)

\* Python truthiness of a column name or None, and  col in row.
usable(col, row) == col # None /\ col # "" /\ col \in DOMAIN row

\* Faulty variant of basic_text: an unresolved column rendered as str(None).
basic_text_none_as_text(row, col) ==
    IF usable(col, row) THEN py_str(row[col]) ELSE "None"

\* part_no and desc:  str(row[col]) if col and col in row else ""
basic_text(row, col) == IF usable(col, row) THEN py_str(row[col]) ELSE ""

\* qty_bin:  str(row[col]) if col and col in row and pd.notna(row[col]) else ""
qty_text(row, col) ==
    IF usable(col, row) /\ notna(row[col]) THEN py_str(row[col]) ELSE ""

RECURSIVE join(_, _, _)
\* sep.join(parts), from position i on
join(sep, parts, i) ==
    IF i > Len(parts) THEN ""
    ELSE IF i = Len(parts) THEN parts[i]
    ELSE parts[i] \o sep \o join(sep, parts, i + 1)

\* Faulty variant of qr_payload: the Store Location components are joined
\* with a comma, not with the separator of the Line Location.
qr_payload_store_comma(part_no, desc, qty_bin, line_parts, store_parts) ==
    "Part No: " \o part_no \o "\nDescription: " \o desc
        \o "\nQTY/BIN: " \o qty_bin \o "\n"
        \o "Line Location: " \o join(" | ", line_parts, 1) \o "\n"
        \o "Store Location: " \o join(", ", store_parts, 1)

\* The f-strings that build qr_data.
qr_payload(part_no, desc, qty_bin, line_parts, store_parts) ==
    "Part No: " \o part_no \o "\nDescription: " \o desc
        \o "\nQTY/BIN: " \o qty_bin \o "\n"
        \o "Line Location: " \o join(" | ", line_parts, 1) \o "\n"
        \o "Store Location: " \o join(" | ", store_parts, 1)

\* desc[:30] and len(desc) > 30
DescLimit == 30

\* Faulty variant of desc_cell_text: the comparison is >= instead of >.
desc_cell_text_off_by_one(desc) ==
    IF Len(desc) >= DescLimit THEN SubSeq(desc, 1, DescLimit) \o "..." ELSE desc

\* desc[:30] + "..." if len(desc) > 30 else desc
desc_cell_text(desc) ==
    IF Len(desc) > DescLimit THEN SubSeq(desc, 1, DescLimit) \o "..." ELSE desc

\* generate_qr_code found the encoder raising: it returns None.
NoImage == [flowable |-> "None"]

\* What generate_qr_code returns: an Image of the payload, or None when the
\* encoder raised (qr_ok = FALSE) and the except clause caught it.
generate_qr_code(data_string, qr_ok) ==
    IF qr_ok THEN [flowable |-> "Image", data |-> data_string] ELSE NoImage

\* Faulty variant of qr_cell: no placeholder, the missing image is laid out.
qr_cell_without_placeholder(qr_image) == qr_image

\* The content of qr_table:  [[qr_image]] if qr_image else [[Paragraph("QR")]]
qr_cell(qr_image) ==
    IF qr_image.flowable # "None" THEN qr_image
    ELSE [flowable |-> "Paragraph", text |-> "QR"]

\* The values one iteration extracts from its row, and qr_data.
row_values(row, cm) ==
    LET part_no     == basic_text(row, cm.part_no_col)
        desc        == basic_text(row, cm.desc_col)
        qty_bin     == qty_text(row, cm.qty_bin_col)
        line_parts  == extract_line_location_components(row, cm.line_location_columns)
        store_parts == extract_store_location_components(row, cm.store_location_columns)
    IN  [part_no |-> part_no, desc |-> desc, qty_bin |-> qty_bin,
         line_location_parts |-> line_parts, store_location_parts |-> store_parts,
         qr_data |-> qr_payload(part_no, desc, qty_bin, line_parts, store_parts)]

\* final_table of one iteration: the texts of the main table (Part No, Desc,
\* Q/B), the S.LOC and L.LOC strips and the QR cell.
final_table(v, qr_image) ==
    [flowable |-> "Table",
     part_no  |-> v.part_no,
     desc     |-> desc_cell_text(v.desc),
     qty      |-> v.qty_bin,
     s_loc    |-> v.store_location_parts,
     l_loc    |-> v.line_location_parts,
     qr       |-> qr_cell(qr_image)]

Spacer    == [flowable |-> "Spacer"]
PageBreak == [flowable |-> "PageBreak"]

\* Faulty variant of page_break_after: a page break after every sticker.
page_break_after_every_row(index, n) == TRUE

\* if index < len(df) - 1      (index is the row's label in df.index)
page_break_after(index, n) == index < n - 1

\* Stickers that fit on one page when no page break separates them: a
\* sticker is a 0.3 cm spacer and a 3 cm table, the page is 15 cm high.
StickersPerPage == 4

RECURSIVE layout(_, _, _, _)
\* doc.build lays the flowables out: the pages (each the tables on it) that
\* elements i.. add to the finished pages and the page being filled, cur.
\* A page break ends the page; a table that does not fit starts a new one;
\* a page begun after the last flowable is not emitted.
layout(elements, i, pages, cur) ==
    IF i > Len(elements) THEN (IF cur = <<>> THEN pages ELSE Append(pages, cur))
    ELSE IF elements[i].flowable = "PageBreak"
         THEN layout(elements, i + 1, Append(pages, cur), <<>>)
    ELSE IF elements[i].flowable = "Table"
         THEN IF Len(cur) = StickersPerPage
              THEN layout(elements, i + 1, Append(pages, cur), <<elements[i]>>)
              ELSE layout(elements, i + 1, pages, Append(cur, elements[i]))
    ELSE layout(elements, i + 1, pages, cur)

-----------------------------------------------------------------------------
(* The input tables *)

\* Most rows of a generated table.
MaxRows == 2

\* First labels and steps of a generated index.
IndexStarts == {0, 1}
IndexSteps  == {0, 1}

\* A description of exactly 30 characters, and one of 31.
Desc30 == "Hex bolt M6 x 40 zinc plated A"
Desc31 == "Hex bolt M6 x 40 zinc plated A2"

\* Headers of the generated tables: all basic columns, in other spellings
\* and with a column ("Part Name") that contains a later description alias
\* before the column containing the first; no quantity column; no
\* identifier and no description column; a store column that contains the
\* alias of a line field before the line column.
SmallHeaders ==
    { <<"Part Name", "Part Desc", "Qty/Bin">>,
      <<"PART NO", "DESC", "LEVEL">>,
      <<"QTY", "MODEL", "ABB FOR ZONE">>,
      <<"ABB FOR LEVEL IN RACK", "LEVEL", "DESCRIPTION">> }

IsDescColumn(col) == col \in {"Part Desc", "DESC", "DESCRIPTION"}
IsQtyColumn(col)  == col \in {"Qty/Bin", "QTY"}

\* The cell of column col in a row of the given kind.
SampleCell(col, kind) ==
    CASE kind = "null"    -> NaN
      [] kind = "typical" -> IF IsDescColumn(col) THEN StrCell(Desc30)
                             ELSE IF IsQtyColumn(col) THEN IntCell(50)
                             ELSE StrCell("A1")
      [] kind = "edge"    -> IF IsDescColumn(col) THEN StrCell(Desc31)
                             ELSE IF IsQtyColumn(col) THEN StrCell("")
                             ELSE IntCell(7)

RowKinds == {"typical", "null", "edge"}

Range(seq) == {seq[i] : i \in 1..Len(seq)}

\* The rows a generated table is made of.
SampleRows(cols) == {[c \in Range(cols) |-> SampleCell(c, k)] : k \in RowKinds}

\* The row labels of a table of n rows: the RangeIndex 0..n-1 a loaded file
\* gets, and the integer labels start, start+step, ... a table gets whose
\* first data column became its index.
IndexChoices(n) ==
    {[i \in 1..n |-> start + (i - 1) * step] : start \in IndexStarts, step \in IndexSteps}

RangeIndex(n) == [i \in 1..n |-> i - 1]

GeneratedTables ==
    UNION { UNION { { [columns |-> cols, index |-> idx, data |-> rows]
                      : idx \in IndexChoices(n), rows \in [1..n -> SampleRows(cols)] }
                    : n \in 0..MaxRows }
            : cols \in SmallHeaders }

\* The table of the end-to-end scenario.
ScenarioColumns ==
    <<"PART NO", "DESC", "QTY", "MODEL", "STATION NO", "RACK", "LEVEL", "CELL",
      "ABB FOR ZONE", "ABB FOR LOCATION", "ABB FOR FLOOR", "ABB FOR RACK NO",
      "ABB FOR LEVEL IN RACK", "ABB FOR CELL", "ABB FOR NO">>

ScenarioRow1 ==
    <<StrCell("A100"), StrCell("Bolt M6"), IntCell(50), StrCell("X1"), StrCell("S3"),
      StrCell("R2"), StrCell(""), StrCell("L4"), StrCell(""), StrCell(""),
      StrCell(""), StrCell(""), StrCell(""), StrCell(""), StrCell("")>>

ScenarioRow2 ==
    <<StrCell("A200"), StrCell("Nut M6"), IntCell(20), StrCell("X2"), StrCell("S1"),
      StrCell("R1"), IntCell(2), StrCell("C5"), StrCell("Z1"), StrCell("B"),
      IntCell(1), NaN, NaN, StrCell("c9"), IntCell(12)>>

\* A row as the Series iterrows yields: column name -> cell.
AsRow(cols, cells) ==
    [c \in Range(cols) |-> cells[CHOOSE i \in 1..Len(cols) : cols[i] = c]]

ScenarioTable ==
    [columns |-> ScenarioColumns,
     index   |-> RangeIndex(2),
     data    |-> <<AsRow(ScenarioColumns, ScenarioRow1),
                   AsRow(ScenarioColumns, ScenarioRow2)>>]

Tables == GeneratedTables \cup {ScenarioTable}

-----------------------------------------------------------------------------
(* main() and generate_sticker_labels *)

\* The text of the exception a library call raised.
Exc == "<e>"

StatusWrite(text)   == [call |-> "write", text |-> text]
StatusSuccess(text) == [call |-> "success", text |-> text]
StatusError(text)   == [call |-> "error", text |-> text]

StError(text)       == [call |-> "error", text |-> text, data |-> <<>>]
StSuccess(text)     == [call |-> "success", text |-> text, data |-> <<>>]
StDownload(data, file_name) ==
    [call |-> "download_button", text |-> file_name, data |-> data]

\* uploaded_file.name
UploadedName == "parts.v2.csv"

RECURSIVE before_dot(_, _)
\* name.split('.')[0], read from position i on
before_dot(name, i) ==
    IF i > Len(name) \/ SubSeq(name, i, i) = "." THEN ""
    ELSE SubSeq(name, i, i) \o before_dot(name, i + 1)

RECURSIVE writes(_, _)
\* One status_container.write per line.
writes(lines, i) ==
    IF i > Len(lines) THEN <<>> ELSE <<StatusWrite(lines[i])>> \o writes(lines, i + 1)

\* tempfile.NamedTemporaryFile(delete=False, suffix='.pdf'): a name no
\* existing file has.
NewTempPath(existing) == "/tmp/tmp" \o ToString(Cardinality(existing) + 1) \o ".pdf"

\* The state of the composer's variables before main calls
\* generate_sticker_labels(df, progress_bar, status_container).
ComposerStart ==
    /\ pc = "begin"
    /\ column_map = NoColumns
    /\ temp_path = None
    /\ files = <<>>
    /\ all_elements = <<>>
    /\ pos = 0
    /\ progress_log = <<>>
    /\ status_log = <<>>
    /\ st_log = <<>>
    /\ pdf_path = None
    /\ builds = 0
    /\ qr_calls = <<>>
    /\ raised = <<>>

\* generate_sticker_labels up to the row loop: the columns are resolved and
\* reported, the temporary file is created and closed, all_elements = [].
Begin ==
    /\ pc = "begin"
    /\ LET cm == resolve_columns(df.columns)
           path == NewTempPath(DOMAIN files)
       IN  /\ column_map' = cm
           /\ status_log' = IF status_container
                            THEN status_log \o writes(using_columns_lines(cm), 1)
                            ELSE status_log
           /\ temp_path' = path
           /\ files' = [f \in DOMAIN files \cup {path} |->
                           IF f = path THEN <<>> ELSE files[f]]
    /\ all_elements' = <<>>
    /\ pos' = 0
    /\ pc' = "loop"
    /\ UNCHANGED <<df, progress_bar, status_container, progress_log, st_log,
                   pdf_path, builds, qr_calls, raised>>

\* One iteration of  for index, row in df.iterrows().  qr_ok tells whether
\* the QR encoder succeeds on this row's payload.
ProcessRow(qr_ok) ==
    /\ pc = "loop"
    /\ pos < Len(df.data)
    /\ LET index      == df.index[pos + 1]
           row        == df.data[pos + 1]
           total_rows == Len(df.data)
           v          == row_values(row, column_map)
           qr_image   == generate_qr_code(v.qr_data, qr_ok)
           elements   == <<Spacer, final_table(v, qr_image)>>
       IN  /\ progress_log' = IF progress_bar
                              THEN Append(progress_log, <<index + 1, total_rows>>)
                              ELSE progress_log
           /\ status_log' = IF status_container
                            THEN Append(status_log,
                                     StatusWrite("Creating sticker " \o ToString(index + 1)
                                                 \o " of " \o ToString(total_rows)))
                            ELSE status_log
           /\ qr_calls' = Append(qr_calls, v.qr_data)
           /\ st_log' = IF qr_ok THEN st_log
                        ELSE Append(st_log, StError("Error generating QR code: " \o Exc))
           /\ raised' = IF qr_ok THEN raised
                        ELSE Append(raised, [by |-> "generate_qr_code", row |-> pos + 1])
           /\ all_elements' = all_elements \o elements
                                \o (IF page_break_after(index, Len(df.data))
                                    THEN <<PageBreak>> ELSE <<>>)
    /\ pos' = pos + 1
    /\ UNCHANGED <<df, progress_bar, status_container, pc, column_map, temp_path,
                   files, pdf_path, builds>>

\* Faulty variant of build_result: the path is returned whether or not
\* doc.build raised.
build_result_always_path(built, path) == path

\* What the try statement around doc.build returns: temp_path, or None from
\* the except clause.
build_result(built, path) == IF built THEN path ELSE None

\* doc.build succeeds: the document is in the temporary file, whose path is
\* returned.
BuildSucceeds ==
    /\ pc = "loop"
    /\ pos = Len(df.data)
    /\ builds' = builds + 1
    /\ files' = [files EXCEPT ![temp_path] = layout(all_elements, 1, <<>>, <<>>)]
    /\ status_log' = IF status_container
                     THEN Append(status_log, StatusSuccess("PDF generated successfully!"))
                     ELSE status_log
    /\ pdf_path' = build_result(TRUE, temp_path)
    /\ pc' = "returned"
    /\ UNCHANGED <<df, progress_bar, status_container, column_map, temp_path,
                   all_elements, pos, progress_log, st_log, qr_calls, raised>>

\* doc.build raises: the except clause reports it and returns None.
BuildFails ==
    /\ pc = "loop"
    /\ pos = Len(df.data)
    /\ builds' = builds + 1
    /\ status_log' = IF status_container
                     THEN Append(status_log, StatusError("Error building PDF: " \o Exc))
                     ELSE status_log
    /\ pdf_path' = build_result(FALSE, temp_path)
    /\ raised' = Append(raised, [by |-> "doc.build", row |-> 0])
    /\ pc' = "returned"
    /\ UNCHANGED <<df, progress_bar, status_container, column_map, temp_path, files,
                   all_elements, pos, progress_log, st_log, qr_calls>>

\* main, if pdf_path: the file is read, unlinked and offered for download.
MainDownload ==
    /\ pc = "returned"
    /\ pdf_path # None /\ pdf_path # ""
    /\ LET pdf_data == files[pdf_path]
       IN  st_log' = st_log \o <<StDownload(pdf_data,
                                            before_dot(UploadedName, 1) \o "_tote_labels.pdf"),
                                 StSuccess("Tote labels generated successfully!")>>
    /\ files' = [f \in DOMAIN files \ {pdf_path} |-> files[f]]
    /\ pc' = "done"
    /\ UNCHANGED <<df, progress_bar, status_container, column_map, temp_path,
                   all_elements, pos, progress_log, status_log, pdf_path, builds,
                   qr_calls, raised>>

\* main, else: the failure is shown.
MainFailed ==
    /\ pc = "returned"
    /\ ~(pdf_path # None /\ pdf_path # "")
    /\ st_log' = Append(st_log, StError("Failed to generate tote labels"))
    /\ pc' = "done"
    /\ UNCHANGED <<df, progress_bar, status_container, column_map, temp_path, files,
                   all_elements, pos, progress_log, status_log, pdf_path, builds,
                   qr_calls, raised>>

\* The variables of find_column and of the extractors called on their own,
\* while the composer runs.
ResolverIdle ==
    fc_cols = <<>> /\ fc_keywords = <<>> /\ fc_result = None /\ fc_pc = "idle"

ExtractIdle ==
    /\ ex_row = <<>>
    /\ ex_line_cols = NoColumns.line_location_columns
    /\ ex_store_cols = NoColumns.store_location_columns
    /\ ex_line = NotRun
    /\ ex_store = NotRun

Init ==
    /\ df \in Tables
    /\ progress_bar \in BOOLEAN
    /\ status_container \in BOOLEAN
    /\ ComposerStart
    /\ ResolverIdle
    /\ ExtractIdle

Next ==
    \/ (Begin /\ UNCHANGED <<resolver_vars, extract_vars>>)
    \/ (\E qr_ok \in BOOLEAN : ProcessRow(qr_ok) /\ UNCHANGED <<resolver_vars, extract_vars>>)
    \/ (BuildSucceeds /\ UNCHANGED <<resolver_vars, extract_vars>>)
    \/ (BuildFails /\ UNCHANGED <<resolver_vars, extract_vars>>)
    \/ (MainDownload /\ UNCHANGED <<resolver_vars, extract_vars>>)
    \/ (MainFailed /\ UNCHANGED <<resolver_vars, extract_vars>>)

Spec == Init /\ [][Next]_vars

-----------------------------------------------------------------------------
(* find_column called on its own *)

\* Most columns of a header, most aliases of a list.
MaxCols == 2
MaxAliases == 2

\* Column names and aliases: they differ in case, overlap, and "c" and "d"
\* match nothing of the other set.
ColumnNames == {"ab", "Ba", "b", "c"}
AliasTexts  == {"A", "ba", "B", "d"}

SeqsUpTo(S, n) == UNION {[1..m -> S] : m \in 0..n}

ComposerIdle ==
    /\ df = [columns |-> <<>>, index |-> <<>>, data |-> <<>>]
    /\ progress_bar = FALSE
    /\ status_container = FALSE
    /\ pc = "idle"
    /\ column_map = NoColumns
    /\ temp_path = None
    /\ files = <<>>
    /\ all_elements = <<>>
    /\ pos = 0
    /\ progress_log = <<>>
    /\ status_log = <<>>
    /\ st_log = <<>>
    /\ pdf_path = None
    /\ builds = 0
    /\ qr_calls = <<>>
    /\ raised = <<>>

InitResolver ==
    /\ fc_cols \in SeqsUpTo(ColumnNames, MaxCols)
    /\ fc_keywords \in SeqsUpTo(AliasTexts, MaxAliases)
    /\ fc_result = None
    /\ fc_pc = "call"
    /\ ExtractIdle
    /\ ComposerIdle

\* find_column(df, keywords) runs and returns.
FindColumn ==
    /\ fc_pc = "call"
    /\ fc_result' = find_column(fc_cols, fc_keywords)
    /\ fc_pc' = "returned"
    /\ UNCHANGED <<fc_cols, fc_keywords, extract_vars, composer_vars>>

NextResolver == FindColumn

SpecResolver == InitResolver /\ [][NextResolver]_vars

-----------------------------------------------------------------------------
(* The extractors called on their own *)

\* The columns the seven line fields and the seven store fields resolve to.
LineColumns  == <<"MODEL", "STATION NO", "RACK", "RACK NO 1ST", "RACK NO 2ND",
                  "LEVEL", "CELL">>
StoreColumns == <<"ABB FOR ZONE", "ABB FOR LOCATION", "ABB FOR FLOOR",
                  "ABB FOR RACK NO", "ABB FOR LEVEL IN RACK", "ABB FOR CELL",
                  "ABB FOR NO">>

\* The non-null cell of each of these columns, with the text str() gives.
LineSamples ==
    <<[cell |-> StrCell("X1"), text |-> "X1"], [cell |-> IntCell(3), text |-> "3"],
      [cell |-> StrCell("R2"), text |-> "R2"], [cell |-> IntCell(0), text |-> "0"],
      [cell |-> IntCell(12), text |-> "12"],   [cell |-> StrCell(""), text |-> ""],
      [cell |-> StrCell("nan"), text |-> "nan"]>>
StoreSamples ==
    <<[cell |-> StrCell("Z"), text |-> "Z"],   [cell |-> IntCell(105), text |-> "105"],
      [cell |-> IntCell(-1), text |-> "-1"],   [cell |-> StrCell("R 7"), text |-> "R 7"],
      [cell |-> StrCell("4"), text |-> "4"],   [cell |-> IntCell(60), text |-> "60"],
      [cell |-> StrCell("No. 9"), text |-> "No. 9"]>>

\* The row whose cells at the positions of nonnull are the samples, the
\* others null.
ExtractRow(nonnull) ==
    [c \in Range(LineColumns) \cup Range(StoreColumns) |->
        LET i == CHOOSE j \in 1..NumComponents : LineColumns[j] = c \/ StoreColumns[j] = c
        IN  IF i \notin nonnull THEN NaN
            ELSE IF LineColumns[i] = c THEN LineSamples[i].cell ELSE StoreSamples[i].cell]

\* The column dict that resolves the fields at the positions of resolved.
ColumnsDict(fields, columns, resolved) ==
    [f \in Range(fields) |->
        LET i == CHOOSE j \in 1..NumComponents : fields[j] = f
        IN  IF i \in resolved THEN columns[i] ELSE None]

InitExtract ==
    /\ \E nonnull \in SUBSET (1..NumComponents), resolved \in SUBSET (1..NumComponents) :
          /\ ex_row = ExtractRow(nonnull)
          /\ ex_line_cols = ColumnsDict(LineFields, LineColumns, resolved)
          /\ ex_store_cols = ColumnsDict(StoreFields, StoreColumns, resolved)
    /\ ex_line = NotRun
    /\ ex_store = NotRun
    /\ ResolverIdle
    /\ ComposerIdle

ExtractLine ==
    /\ ex_line = NotRun
    /\ ex_line' = extract_line_location_components(ex_row, ex_line_cols)
    /\ UNCHANGED <<ex_row, ex_line_cols, ex_store_cols, ex_store,
                   resolver_vars, composer_vars>>

ExtractStore ==
    /\ ex_store = NotRun
    /\ ex_store' = extract_store_location_components(ex_row, ex_store_cols)
    /\ UNCHANGED <<ex_row, ex_line_cols, ex_store_cols, ex_line,
                   resolver_vars, composer_vars>>

NextExtract == ExtractLine \/ ExtractStore

SpecExtract == InitExtract /\ [][NextExtract]_vars

-----------------------------------------------------------------------------
(* Properties of find_column *)

\* Each letter with its capital.
CasePairs ==
    { <<"a", "A">>, <<"b", "B">>, <<"c", "C">>, <<"d", "D">>, <<"e", "E">>,
      <<"f", "F">>, <<"g", "G">>, <<"h", "H">>, <<"i", "I">>, <<"j", "J">>,
      <<"k", "K">>, <<"l", "L">>, <<"m", "M">>, <<"n", "N">>, <<"o", "O">>,
      <<"p", "P">>, <<"q", "Q">>, <<"r", "R">>, <<"s", "S">>, <<"t", "T">>,
      <<"u", "U">>, <<"v", "V">>, <<"w", "W">>, <<"x", "X">>, <<"y", "Y">>,
      <<"z", "Z">> }

\* Two characters that are the same letter in either case, or the same
\* character.
SameIgnoringCase(c, d) == c = d \/ <<c, d>> \in CasePairs \/ <<d, c>> \in CasePairs

\* name contains alias as a substring, case ignored.
ContainsIgnoringCase(name, alias) ==
    \E off \in 0..(Len(name) - Len(alias)) :
        \A t \in 1..Len(alias) :
            SameIgnoringCase(SubSeq(name, off + t, off + t), SubSeq(alias, t, t))

\* Column j of the header contains alias k of the list.
Hit(cols, keywords, j, k) == ContainsIgnoringCase(cols[j], keywords[k])

AnyHit(cols, keywords) ==
    \E j \in 1..Len(cols), k \in 1..Len(keywords) : Hit(cols, keywords, j, k)

\* C1: find_column returns a column of the header that contains some alias
\* of the list as a case-insensitive substring, or None; it returns None
\* exactly when no column contains any alias, and a call with no match
\* returns (None) like any other.
C1_ResolverContract ==
    fc_pc = "returned" =>
        /\ fc_result # None =>
              \E j \in 1..Len(fc_cols) :
                  /\ fc_cols[j] = fc_result
                  /\ \E k \in 1..Len(fc_keywords) : Hit(fc_cols, fc_keywords, j, k)
        /\ fc_result = None <=> ~AnyHit(fc_cols, fc_keywords)

\* A call that returned a column which matches only when case is ignored.
C1_Witness ==
    /\ fc_pc = "returned"
    /\ fc_result # None
    /\ \A k \in 1..Len(fc_keywords) : ~str_in(fc_keywords[k], fc_result)

\* The earliest alias some column contains, and the earliest column
\* containing it.
FirstAlias(cols, keywords) ==
    CHOOSE k \in 1..Len(keywords) :
        /\ \E j \in 1..Len(cols) : Hit(cols, keywords, j, k)
        /\ \A k2 \in 1..(k - 1) : \A j \in 1..Len(cols) : ~Hit(cols, keywords, j, k2)

FirstColumn(cols, keywords, k) ==
    CHOOSE j \in 1..Len(cols) :
        /\ Hit(cols, keywords, j, k)
        /\ \A j2 \in 1..(j - 1) : ~Hit(cols, keywords, j2, k)

\* C2: when columns match, find_column returns the earliest column in header
\* order that contains the earliest matching alias of the list, whatever
\* later aliases earlier columns contain; the result is one column.
C2_AliasPriorityThenHeaderOrder ==
    (fc_pc = "returned" /\ AnyHit(fc_cols, fc_keywords)) =>
        LET a == FirstAlias(fc_cols, fc_keywords)
        IN  fc_result = fc_cols[FirstColumn(fc_cols, fc_keywords, a)]

\* A call whose result is preceded in the header by a column containing a
\* later alias of the list.
C2_Witness ==
    /\ fc_pc = "returned"
    /\ AnyHit(fc_cols, fc_keywords)
    /\ LET a == FirstAlias(fc_cols, fc_keywords)
           c == FirstColumn(fc_cols, fc_keywords, a)
       IN  /\ fc_result = fc_cols[c]
           /\ \E j \in 1..(c - 1), k \in (a + 1)..Len(fc_keywords) :
                  /\ Hit(fc_cols, fc_keywords, j, k)
                  /\ fc_cols[j] # fc_result

-----------------------------------------------------------------------------
(* Properties of the extractors *)

\* The components the row and the column dict call for: the sample's text
\* where the field is resolved and the cell non-null, else the empty string.
ExpectedComponent(row, cols, fields, samples, i) ==
    IF cols[fields[i]] = None THEN ""
    ELSE IF row[cols[fields[i]]].kind = "nan" THEN ""
    ELSE samples[i].text

IsComponents(parts, row, cols, fields, samples) ==
    /\ DOMAIN parts = 1..7
    /\ \A i \in 1..7 :
          /\ parts[i] \in STRING
          /\ parts[i] = ExpectedComponent(row, cols, fields, samples, i)

\* C4: each extractor returns exactly 7 strings; position i is the string
\* form of the cell in the column of the i-th field when that column is
\* resolved and the cell non-null, and the empty string otherwise.
C4_SevenComponents ==
    /\ ex_line # NotRun =>
          IsComponents(ex_line, ex_row, ex_line_cols, LineFields, LineSamples)
    /\ ex_store # NotRun =>
          IsComponents(ex_store, ex_row, ex_store_cols, StoreFields, StoreSamples)

\* Both extractors have run on a row and a column map with a resolved
\* non-null field, a resolved null field and an unresolved field.
C4_Witness ==
    /\ ex_line # NotRun
    /\ ex_store # NotRun
    /\ \E i, j, k \in 1..7 :
          /\ ex_line_cols[LineFields[i]] # None /\ ex_row[LineColumns[i]].kind # "nan"
          /\ ex_line[i] = LineSamples[i].text /\ ex_line[i] # ""
          /\ ex_store_cols[StoreFields[j]] # None /\ ex_row[StoreColumns[j]].kind = "nan"
          /\ ex_store[j] = ""
          /\ ex_line_cols[LineFields[k]] = None /\ ex_line[k] = ""

-----------------------------------------------------------------------------
(* Properties of the composer *)

\* The row loop is over: all_elements is what doc.build is handed.
LoopOver == (pc = "loop" /\ pos = Len(df.data)) \/ pc \in {"returned", "done"}

\* The stickers (final tables) of all_elements, in order.
Stickers == SelectSeq(all_elements, LAMBDA e : e.flowable = "Table")

\* Sticker t carries the texts extracted from row i.
StickerOfRow(t, i) ==
    LET v == row_values(df.data[i], column_map)
    IN  /\ t.flowable = "Table"
        /\ t.part_no = v.part_no
        /\ t.qty = v.qty_bin
        /\ t.s_loc = v.store_location_parts
        /\ t.l_loc = v.line_location_parts

\* The pages doc.build makes of all_elements.
Pages == layout(all_elements, 1, <<>>, <<>>)

\* C3: what doc.build is handed holds one sticker (spacer, table) per row, in
\* row order, a page break between adjacent stickers and none after the
\* last; the pages are as many as the rows.
C3_OneStickerPerRow ==
    LoopOver =>
        LET n == Len(df.data)
        IN  /\ Len(all_elements) = (IF n = 0 THEN 0 ELSE 3 * n - 1)
            /\ \A i \in 1..n :
                  /\ all_elements[3 * i - 2].flowable = "Spacer"
                  /\ StickerOfRow(all_elements[3 * i - 1], i)
            /\ \A i \in 1..(n - 1) : all_elements[3 * i].flowable = "PageBreak"
            /\ Len(Pages) = n

\* The strip the scenario is said to give, and the strip the columns
\* resolved in header order give.
ScenarioStripAsClaimed == <<"X1", "S3", "R2", "", "", "L4", "">>
ScenarioStrip          == <<"X1", "S3", "R2", "", "", "", "L4">>

\* The scenario's line fields resolve to the columns of their own names,
\* the two rack digits to none.
ScenarioLineColumns ==
    /\ column_map.line_location_columns["model"] = "MODEL"
    /\ column_map.line_location_columns["station_no"] = "STATION NO"
    /\ column_map.line_location_columns["rack"] = "RACK"
    /\ column_map.line_location_columns["rack_no_1st"] = None
    /\ column_map.line_location_columns["rack_no_2nd"] = None
    /\ column_map.line_location_columns["level"] = "LEVEL"
    /\ column_map.line_location_columns["cell"] = "CELL"

\* C5 as stated: in the scenario page 1's Line Location strip reads
\* X1, S3, R2, "", "", L4, "" in the order model, station_no, rack,
\* rack_no_1st, rack_no_2nd, level, cell, and the document has 2 pages.
C5_ScenarioAsClaimed ==
    (df = ScenarioTable /\ LoopOver) =>
        /\ Stickers[1].l_loc = ScenarioStripAsClaimed
        /\ Len(Pages) = 2

\* C5 amended: the row's LEVEL cell is empty and its CELL cell is "L4", so
\* the strip reads X1, S3, R2, "", "", "", L4 in that field order; the
\* document has 2 pages.
C5_Scenario ==
    (df = ScenarioTable /\ LoopOver) =>
        /\ ScenarioLineColumns
        /\ Len(Stickers) = 2
        /\ Stickers[1].l_loc = ScenarioStrip
        /\ Len(Pages) = 2
        /\ \A i \in 1..Len(st_log) :
              st_log[i].call = "download_button" =>
                  /\ Len(st_log[i].data) = 2
                  /\ st_log[i].data[1] = <<Stickers[1]>>

\* The scenario ran to the end and its 2-page document is offered.
C5_Witness ==
    /\ df = ScenarioTable
    /\ pc = "done"
    /\ \E i \in 1..Len(st_log) :
          st_log[i].call = "download_button" /\ Len(st_log[i].data) = 2
    /\ Stickers[1].part_no = "A100"

\* C6: the invocation creates a temporary file no earlier file has the name
\* of, and when it has ended, however it ended, that file is gone.
C6_TempFileDeleted ==
    /\ pc # "begin" => temp_path # None
    /\ pc = "done" => temp_path \notin DOMAIN files

\* The lines the composer's rows leave in the exception record.
QrFailed(i) == \E r \in 1..Len(raised) :
                   raised[r].by = "generate_qr_code" /\ raised[r].row = i

BuildFailed == \E r \in 1..Len(raised) : raised[r].by = "doc.build"

\* all_elements with every QR cell as it is when the encoder succeeds.
RECURSIVE AsIfEncoded(_, _, _)
AsIfEncoded(elements, i, t) ==
    IF i > Len(elements) THEN <<>>
    ELSE IF elements[i].flowable = "Table"
         THEN <<[elements[i] EXCEPT !.qr = [flowable |-> "Image", data |-> qr_calls[t]]]>>
              \o AsIfEncoded(elements, i + 1, t + 1)
         ELSE <<elements[i]>> \o AsIfEncoded(elements, i + 1, t)

\* C7: a row whose QR encoding failed still has its sticker, with the "QR"
\* placeholder in place of the image; the loop goes on to the remaining
\* rows; the other texts of every sticker and the page count are those of a
\* run in which every encoding succeeded.
C7_QrFailureIsPerRow ==
    /\ Len(Stickers) = pos
    /\ \A i \in 1..pos :
          LET t == Stickers[i]
              v == row_values(df.data[i], column_map)
          IN  /\ t.part_no = v.part_no
              /\ t.desc = desc_cell_text(v.desc)
              /\ t.qty = v.qty_bin
              /\ t.s_loc = v.store_location_parts
              /\ t.l_loc = v.line_location_parts
              /\ IF QrFailed(i)
                 THEN t.qr = [flowable |-> "Paragraph", text |-> "QR"]
                 ELSE t.qr = [flowable |-> "Image", data |-> v.qr_data]
    /\ pc \in {"returned", "done"} => pos = Len(df.data)
    /\ (pc = "loop" /\ pos < Len(df.data)) => ENABLED ProcessRow(TRUE)
    /\ LoopOver => Len(Pages) = Len(layout(AsIfEncoded(all_elements, 1, 1), 1, <<>>, <<>>))

\* A finished run whose first row failed to encode and whose later row did
\* not.
C7_Witness ==
    /\ pc = "done"
    /\ pos >= 2
    /\ QrFailed(1)
    /\ ~QrFailed(2)
    /\ Stickers[1].qr.flowable = "Paragraph"
    /\ Stickers[2].qr.flowable = "Image"

\* C8: when doc.build fails, the failure is written to the status
\* collaborator if there is one, None is returned, main offers no download
\* and shows the failure; doc.build was called once.
C8_BuildFailureIsTerminal ==
    (BuildFailed /\ pc \in {"returned", "done"}) =>
        /\ pdf_path = None
        /\ builds = 1
        /\ status_container =>
              status_log[Len(status_log)] = StatusError("Error building PDF: " \o Exc)
        /\ ~status_container => status_log = <<>>
        /\ \A i \in 1..Len(st_log) : st_log[i].call # "download_button"
        /\ pc = "done" =>
              st_log[Len(st_log)] = StError("Failed to generate tote labels")

\* A run of at least one row has ended after doc.build failed, with a
\* status collaborator.
C8_Witness ==
    /\ BuildFailed
    /\ pc = "done"
    /\ status_container
    /\ Len(df.data) >= 1

\* The texts the payload holds for a basic field that is empty.
EmptyInPayload(field, payload) ==
    CASE field = "part_no" -> SubSeq(payload, 1, 23) = "Part No: \nDescription: "
      [] field = "desc"    -> str_in("\nDescription: \nQTY/BIN: ", payload)
      [] field = "qty"     -> str_in("\nQTY/BIN: \nLine Location: ", payload)

BasicAliases == [part_no |-> PartNoAliases, desc |-> DescAliases, qty |-> QtyBinAliases]

\* C9: a basic field none of whose aliases any header column contains is the
\* empty string on every sticker and in every QR payload, and the run goes
\* on to its end: no step of it is stopped by the missing column.
C9_MissingBasicColumn ==
    pc \notin {"begin", "idle"} =>
        LET missing == {f \in DOMAIN BasicAliases : ~AnyHit(df.columns, BasicAliases[f])}
        IN  missing # {} =>
                /\ \A field \in missing :
                      /\ \A i \in 1..Len(Stickers) : Stickers[i][field] = ""
                      /\ \A i \in 1..Len(qr_calls) : EmptyInPayload(field, qr_calls[i])
                /\ Len(Stickers) = pos /\ Len(qr_calls) = pos
                /\ (pc = "loop" /\ pos < Len(df.data)) => ENABLED ProcessRow(TRUE)
                /\ (pc = "loop" /\ pos = Len(df.data)) => ENABLED BuildSucceeds
                /\ pc \in {"returned", "done"} => pos = Len(df.data)

\* A run over two rows without a quantity column has ended with its
\* document offered.
C9_Witness ==
    /\ pc = "done"
    /\ Len(df.data) = 2
    /\ ~AnyHit(df.columns, QtyBinAliases)
    /\ AnyHit(df.columns, PartNoAliases)
    /\ \E i \in 1..Len(st_log) : st_log[i].call = "download_button"
    /\ Stickers[2].qty = ""

\* The description extracted from row i.
DescOfRow(i) == row_values(df.data[i], column_map).desc

\* C10: the Desc cell of a sticker is the first 30 characters of the row's
\* description followed by "..." (33 characters) when the description is
\* longer than 30, and the description itself otherwise; the QR payload
\* holds the whole description.
C10_DescriptionTruncation ==
    /\ Len(Stickers) = pos /\ Len(qr_calls) = pos
    /\ \A i \in 1..pos :
          LET d == DescOfRow(i)
              text == Stickers[i].desc
          IN  /\ Len(d) > 30 =>
                    /\ Len(text) = 33
                    /\ SubSeq(text, 1, 30) = SubSeq(d, 1, 30)
                    /\ SubSeq(text, 31, 33) = "..."
              /\ Len(d) <= 30 => text = d
              /\ str_in("\nDescription: " \o d \o "\nQTY/BIN: ", qr_calls[i])

\* A finished run with a sticker of a description of 31 characters and one
\* of a description of exactly 30.
C10_Witness ==
    /\ pc = "done"
    /\ \E i, j \in 1..pos :
          /\ Len(DescOfRow(i)) = 31 /\ Len(Stickers[i].desc) = 33
          /\ Len(DescOfRow(j)) = 30 /\ Stickers[j].desc = DescOfRow(j)

-----------------------------------------------------------------------------
(* QR payload *)

\* Seven components written out with the separator between them.
SevenJoined(parts) ==
    parts[1] \o " | " \o parts[2] \o " | " \o parts[3] \o " | " \o parts[4]
        \o " | " \o parts[5] \o " | " \o parts[6] \o " | " \o parts[7]

\* The labeled fields of a payload, in their order.
PayloadTemplate(v) ==
    "Part No: " \o v.part_no \o "\n"
        \o "Description: " \o v.desc \o "\n"
        \o "QTY/BIN: " \o v.qty_bin \o "\n"
        \o "Line Location: " \o SevenJoined(v.line_location_parts) \o "\n"
        \o "Store Location: " \o SevenJoined(v.store_location_parts)

\* C11: the payload handed to the QR encoder for a row is the fixed
\* template of the labeled fields Part No, Description, QTY/BIN, Line
\* Location and Store Location, in that order, filled with the values
\* extracted from that row, the 7 components of either location joined
\* with the same separator; two rows of equal values have equal payloads,
\* whatever their positions, their index labels, the rows before them and
\* the outcome of the encoder on any row.
C11_QrPayloadDeterminism ==
    /\ pc \in {"loop", "returned", "done"} => Len(qr_calls) = pos
    /\ \A i \in 1..Len(qr_calls) :
          /\ qr_calls[i] = PayloadTemplate(row_values(df.data[i], column_map))
          /\ \A j \in 1..Len(qr_calls) :
                df.data[i] = df.data[j] => qr_calls[i] = qr_calls[j]

\* A finished run of two rows of equal values under different index labels,
\* the first of which failed to encode: the payloads are equal and carry a
\* part number and a Line Location component.
C11_Witness ==
    /\ pc = "done"
    /\ pos = 2
    /\ df.data[1] = df.data[2]
    /\ df.index[1] # df.index[2]
    /\ QrFailed(1) /\ ~QrFailed(2)
    /\ qr_calls[1] = qr_calls[2]
    /\ row_values(df.data[1], column_map).part_no # ""
    /\ \E k \in 1..NumComponents :
          row_values(df.data[1], column_map).line_location_parts[k] # ""

-----------------------------------------------------------------------------
(* Progress reporting *)

\* The fraction of report i, as numerator and denominator.
Reported(i) == [num |-> progress_log[i][1], den |-> progress_log[i][2]]

\* C12: with a progress collaborator, one fraction is reported per row, in
\* row order, and report i is  i / total rows : the values are strictly
\* increasing, each lies in (0, 1], and 1 is reported for the last row
\* only; without a progress collaborator nothing is reported, and without a
\* status collaborator nothing is written.
C12_ProgressReporting ==
    /\ (progress_bar /\ pc \in {"loop", "returned", "done"})
          => Len(progress_log) = pos
    /\ \A i \in 1..Len(progress_log) :
          /\ Reported(i).den = Len(df.data)
          /\ Reported(i).num = i
          /\ 0 < Reported(i).num /\ Reported(i).num <= Reported(i).den
          /\ i > 1 => Reported(i - 1).num < Reported(i).num
          /\ Reported(i).num = Reported(i).den => i = Len(df.data)
    /\ ~progress_bar => progress_log = <<>>
    /\ ~status_container => status_log = <<>>

=============================================================================
